---- MODULE Spec2Model ----
(***************************************************************************)
(* Fuel-station finder: route sampling and enrichment pipeline.            *)
(*                                                                         *)
(* Numbers.  JavaScript numbers are modelled as records [k, v]: a finite   *)
(* value (k = "fin", v an integer), NaN, +Infinity, -Infinity, or the      *)
(* value undefined.  Finite quotients are rounded down to an integer; the  *)
(* exceptional results of IEEE-754 (0/0 = NaN, x/0 = +-Infinity, any       *)
(* comparison with NaN is false) are kept as the language defines them.    *)
(*                                                                         *)
(* Geography.  Latitudes and longitudes are counted in units of 0.0001     *)
(* degree, elevations in metres, distances in metres.  Every modelled      *)
(* coordinate lies on one meridian (longitude Lon0), where the haversine   *)
(* distance is R * |dLat|, i.e. MetersPerLatUnit metres per latitude unit. *)
(* Route points have finite coordinates.                                   *)
(*                                                                         *)
(* Service.  The point-of-interest service is free to answer a request     *)
(* with any outcome of Outcomes, or never.                                 *)
(*                                                                         *)
(* Text.  A text is a sequence of pieces: single characters where the      *)
(* code looks at characters (digits, sign, decimal point, markup), runs    *)
(* of other characters elsewhere.  A document is the sequence of its point *)
(* and waypoint elements.  Coordinates are written and read with 4         *)
(* decimals of a degree, elevations and kilometres as whole numbers.       *)
(***************************************************************************)
EXTENDS Integers, Sequences, FiniteSets, TLC

(* ------------------------------ bounds -------------------------------- *)

\* Longest route (number of points) drawn as input.
MaxLen == 3

\* Largest sample count handed to sampleRoutePoints by the sampling harness.
MaxCount == 3

(* ------------------------- JavaScript numbers ------------------------- *)

Fin(n) == [k |-> "fin", v |-> n]

NaN == [k |-> "nan", v |-> 0]

PInf == [k |-> "pinf", v |-> 0]

NInf == [k |-> "ninf", v |-> 0]

Undef == [k |-> "undef", v |-> 0]

IsFin(a) == a.k = "fin"

IsNaNLike(a) == a.k \in {"nan", "undef"}

\* -1, 0, 1 for a value that is neither NaN nor undefined.
Sgn(a) ==
  CASE a.k = "pinf" -> 1
    [] a.k = "ninf" -> -1
    [] OTHER -> IF a.v > 0 THEN 1 ELSE IF a.v < 0 THEN -1 ELSE 0

SignedInf(s) == IF s > 0 THEN PInf ELSE NInf

Neg(a) ==
  CASE IsNaNLike(a) -> NaN
    [] a.k = "pinf" -> NInf
    [] a.k = "ninf" -> PInf
    [] OTHER -> Fin(0 - a.v)

Add(a, b) ==
  CASE IsNaNLike(a) \/ IsNaNLike(b) -> NaN
    [] IsFin(a) /\ IsFin(b) -> Fin(a.v + b.v)
    [] IsFin(a) -> b
    [] IsFin(b) -> a
    [] OTHER -> IF a.k = b.k THEN a ELSE NaN

Sub(a, b) == Add(a, Neg(b))

Mul(a, b) ==
  CASE IsNaNLike(a) \/ IsNaNLike(b) -> NaN
    [] IsFin(a) /\ IsFin(b) -> Fin(a.v * b.v)
    [] OTHER -> IF Sgn(a) * Sgn(b) = 0 THEN NaN ELSE SignedInf(Sgn(a) * Sgn(b))

\* a / b; a finite quotient is rounded down.
Div(a, b) ==
  CASE IsNaNLike(a) \/ IsNaNLike(b) -> NaN
    [] IsFin(a) /\ IsFin(b) ->
         IF b.v # 0 THEN Fin(a.v \div b.v)
         ELSE IF a.v = 0 THEN NaN ELSE SignedInf(a.v)
    [] IsFin(a) -> Fin(0)
    [] IsFin(b) -> SignedInf(Sgn(a) * (IF b.v < 0 THEN -1 ELSE 1))
    [] OTHER -> NaN

AbsNum(a) == IF IsNaNLike(a) THEN NaN ELSE IF Sgn(a) < 0 THEN Neg(a) ELSE a

\* a < b, a <= b, a >= b: false as soon as one side is NaN.
Lt(a, b) ==
  /\ ~IsNaNLike(a)
  /\ ~IsNaNLike(b)
  /\ \/ a.k = "ninf" /\ b.k # "ninf"
     \/ a.k = "fin" /\ b.k = "pinf"
     \/ a.k = "fin" /\ b.k = "fin" /\ a.v < b.v

Le(a, b) == ~IsNaNLike(a) /\ ~IsNaNLike(b) /\ (Lt(a, b) \/ a = b)

Ge(a, b) == Le(b, a)

\* JavaScript truthiness of a number-or-undefined: 0, NaN and undefined are falsy.
Truthy(a) == ~IsNaNLike(a) /\ ~(IsFin(a) /\ a.v = 0)

\* x || y
OrElse(x, y) == IF Truthy(x) THEN x ELSE y

(* ------------------------------ geometry ------------------------------ *)

\* Metres per latitude unit (0.0001 degree) on the sphere of radius 6371 km:
\* 6371000 * pi / 180 / 10000 = 11.12, rounded to a whole number of metres.
MetersPerLatUnit == 11

\* The meridian all modelled coordinates lie on (4 degrees east).
Lon0 == Fin(40000)

\* The haversine great-circle distance in metres.  On one meridian
\* a = sin^2(dLat/2) and 6371 * c * 1000 = R * |dLat|.
Haversine(lat1, lon1, lat2, lon2) ==
  IF IsNaNLike(lon1) \/ IsNaNLike(lon2) THEN NaN
  ELSE Mul(Fin(MetersPerLatUnit), AbsNum(Sub(lat2, lat1)))

calculateDistance(point1, point2) ==
  Haversine(point1.lat, point1.lon, point2.lat, point2.lon)

SegmentDistance(points, i) ==
  Haversine(points[i - 1].lat, points[i - 1].lon, points[i].lat, points[i].lon)

\* The loop of calculateTotalDistance; i is the 1-based index of the segment's end.
RECURSIVE TotalLoop(_, _, _)
TotalLoop(points, i, totalDistance) ==
  IF i > Len(points) THEN totalDistance
  ELSE TotalLoop(points, i + 1, Add(totalDistance, SegmentDistance(points, i)))

calculateTotalDistance(points) == TotalLoop(points, 2, Fin(0))

(* ------------------------------- sampler ------------------------------ *)

\* What indexing past the end of an array yields (undefined).
NoPoint == [lat |-> Undef, lon |-> Undef, ele |-> Undef]

\* The walk of findPointAtDistance: the first segment i with
\* accumulatedDistance + segmentDistance >= targetDistance, if there is one.
RECURSIVE FindSegment(_, _, _, _)
FindSegment(routePoints, targetDistance, i, accumulatedDistance) ==
  IF i > Len(routePoints)
  THEN [found |-> FALSE, i |-> i, acc |-> accumulatedDistance, seg |-> Fin(0)]
  ELSE LET segmentDistance == SegmentDistance(routePoints, i)
       IN  IF Ge(Add(accumulatedDistance, segmentDistance), targetDistance)
           THEN [found |-> TRUE, i |-> i, acc |-> accumulatedDistance,
                 seg |-> segmentDistance]
           ELSE FindSegment(routePoints, targetDistance, i + 1,
                            Add(accumulatedDistance, segmentDistance))

\* from + (to - from) * ratio, with ratio = num / den kept as a quotient so that
\* the product is rounded once.
Interpolate(from, to, num, den) == Add(from, Div(Mul(Sub(to, from), num), den))

findPointAtDistance(routePoints, targetDistance) ==
  LET s == FindSegment(routePoints, targetDistance, 2, Fin(0))
  IN  IF s.found
      THEN LET a == routePoints[s.i - 1]
               b == routePoints[s.i]
               num == Sub(targetDistance, s.acc)
           IN  [lat |-> Interpolate(a.lat, b.lat, num, s.seg),
                lon |-> Interpolate(a.lon, b.lon, num, s.seg),
                ele |-> Interpolate(a.ele, b.ele, num, s.seg)]
      ELSE IF Len(routePoints) = 0 THEN NoPoint
           ELSE routePoints[Len(routePoints)]

\* The divisor of every target distance.
TargetDivisor(numSamples) == numSamples - 1

\* targetDistance of sample i (0-based) among numSamples.
TargetDistance(routePoints, numSamples, i) ==
  Div(Mul(Fin(i), calculateTotalDistance(routePoints)), Fin(TargetDivisor(numSamples)))

RECURSIVE SampleLoop(_, _, _, _)
SampleLoop(routePoints, numSamples, i, samples) ==
  IF i >= numSamples THEN samples
  ELSE LET point == findPointAtDistance(routePoints,
                                        TargetDistance(routePoints, numSamples, i))
       IN  SampleLoop(routePoints, numSamples, i + 1,
                      IF point # NoPoint THEN Append(samples, point) ELSE samples)

sampleRoutePoints(routePoints, numSamples) ==
  SampleLoop(routePoints, numSamples, 0, << >>)

(* --------------------------- inputs: routes --------------------------- *)

Pt(lat, ele) == [lat |-> Fin(lat), lon |-> Lon0, ele |-> Fin(ele)]

\* Route points near 50 N: two points 33 m apart (one cache cell), one point
\* given twice with different elevations, and points 40.7 km and 60.5 km north.
Points ==
  { Pt(500000, 0), Pt(500000, 40), Pt(500003, 20), Pt(503700, 60), Pt(505500, 80) }

RECURSIVE SeqsUpTo(_, _)
SeqsUpTo(S, n) ==
  IF n = 0 THEN { << >> }
  ELSE LET shorter == SeqsUpTo(S, n - 1)
       IN  shorter \cup { Append(q, x) : q \in { r \in shorter : Len(r) = n - 1 }, x \in S }

\* The non-empty routes the parser can hand over (an empty one is answered with
\* the no-route-data error before the finder is built).
Routes == { r \in SeqsUpTo(Points, MaxLen) : Len(r) >= 1 }

(* ------------------------------ options ------------------------------ *)

\* Search radius around a sample, metres.
maxDistance == 2000

\* Minimum spacing of the samples, kilometres.
minInterval == 40

\* Maximum spacing, kilometres; no method reads it.
maxInterval == 80

(* ----------------------- point-of-interest client --------------------- *)

\* x.toFixed(3): three decimals of a degree are ten latitude units.
toFixed3(x) == IF IsFin(x) THEN Fin((x.v + 5) \div 10) ELSE x

cacheKey(lat, lon) == [lat |-> toFixed3(lat), lon |-> toFixed3(lon)]

\* Mutant: the cache is never consulted.
CacheHasNever(c, key) == FALSE

CacheHas(c, key) == key \in DOMAIN c

\* Mutant: the store is forgotten.
CacheSetNothing(c, key, stations) == c

\* this.cache.set(cacheKey, stations)
CacheSet(c, key, stations) == [k \in DOMAIN c \cup {key} |-> IF k = key THEN stations ELSE c[k]]

\* Mutant: the catch block stores the empty list.
CacheSetEmpty(c, key) == CacheSet(c, key, << >>)

\* What the catch block leaves in the cache.
CacheAfterFailure(c, key) == c

\* An element of the service's answer: a node carries lat/lon, a way carries a
\* center; amenity "none" stands for an element without tags.  A name or brand is
\* a text: a sequence of pieces, each piece one character or a run of characters
\* that holds no markup character; the empty text stands for an absent tag.
Element(id, amenity, name, brand, lat, clat) ==
  [id |-> id, amenity |-> amenity, name |-> name, brand |-> brand,
   lat |-> lat, lon |-> IF lat = Undef THEN Undef ELSE Lon0,
   clat |-> clat, clon |-> IF clat = Undef THEN Undef ELSE Lon0]

ShellNode == Element(1, "fuel", << "Shell Noord" >>, << "Shell" >>, Fin(500005), Undef)

Q8Way == Element(2, "fuel", << >>, << >>, Undef, Fin(505490))

CafeNode == Element(3, "cafe", << "Bar" >>, << >>, Fin(500001), Undef)

FarNode == Element(4, "fuel", << "Esso" >>, << "Esso" >>, Fin(500300), Undef)

NoCoordWay == Element(5, "fuel", << "Total" >>, << "Total" >>, Undef, Undef)

EssoNode ==
  Element(6, "fuel", << "Esso ", "<", "Sud", ">" >>, << "Esso ", "&", " Co" >>,
          Fin(500002), Undef)

TotalWay == Element(7, "fuel", << "Total Access" >>, << "Total" >>, Undef, Fin(500010))

BpNode == Element(8, "fuel", << "BP" >>, << "BP" >>, Fin(499999), Undef)

\* A fuel node exactly on the equator (latitude 0).
EquatorNode == Element(9, "fuel", << "Equator Fuel" >>, << "Puma" >>, Fin(0), Undef)

\* The element lists a parsed answer can carry.
Bodies ==
  { << >>,
    << ShellNode >>,
    << Q8Way, CafeNode >>,
    << FarNode, NoCoordWay, ShellNode, EssoNode >> }

\* element.tags.name || 'Unnamed Fuel Station', element.tags.brand || 'Unknown'
TextOr(text, default) == IF text = << >> THEN default ELSE text

\* The .map(...) step: the station record built from an element.
ToStation(element, lat, lon) ==
  LET slat == OrElse(element.lat, element.clat)
      slon == OrElse(element.lon, element.clon)
  IN  [id |-> element.id,
       name |-> TextOr(element.name, << "Unnamed Fuel Station" >>),
       brand |-> TextOr(element.brand, << "Unknown" >>),
       lat |-> slat,
       lon |-> slon,
       distance |-> Haversine(lat, lon, slat, slon)]

IsFuel(element) == element.amenity = "fuel"

KeepStation(station) ==
  Truthy(station.lat) /\ Truthy(station.lon) /\ Le(station.distance, Fin(maxDistance))

RECURSIVE MapFilter(_, _, _)
MapFilter(elements, lat, lon) ==
  IF elements = << >> THEN << >>
  ELSE LET rest == MapFilter(Tail(elements), lat, lon)
           e == Head(elements)
       IN  IF IsFuel(e) /\ KeepStation(ToStation(e, lat, lon))
           THEN << ToStation(e, lat, lon) >> \o rest
           ELSE rest

\* Array.prototype.sort with the comparator a[field] - b[field]: a stable sort
\* by that field.
RECURSIVE InsertByKey(_, _, _)
InsertByKey(sorted, x, field) ==
  IF sorted = << >> THEN << x >>
  ELSE IF Lt(x[field], Head(sorted)[field]) THEN << x >> \o sorted
       ELSE << Head(sorted) >> \o InsertByKey(Tail(sorted), x, field)

RECURSIVE SortByKey(_, _)
SortByKey(s, field) ==
  IF s = << >> THEN << >>
  ELSE InsertByKey(SortByKey(SubSeq(s, 1, Len(s) - 1), field), s[Len(s)], field)

\* .slice(0, 3)
Slice3(s) == IF Len(s) <= 3 THEN s ELSE SubSeq(s, 1, 3)

\* The candidate list built from a parsed answer (filter, map, filter, sort, slice).
ProcessElements(elements, lat, lon) ==
  Slice3(SortByKey(MapFilter(elements, lat, lon), "distance"))

(* ------------------------------ enricher ------------------------------ *)

\* Mutant: the quotient is rounded up.
CountRoundedUp(routeLength, interval) ==
  IF IsFin(routeLength) /\ routeLength.v > 0
  THEN (routeLength.v + 1000 * interval - 1) \div (1000 * interval)
  ELSE 1

\* Math.max(1, Math.floor(routeLength / 1000 / interval)); with a NaN length the
\* count is NaN and the sampling loop (i < NaN) does not run.
StationCount(routeLength, interval) ==
  LET q == Div(Div(routeLength, Fin(1000)), Fin(interval))
  IN  IF IsFin(q) THEN (IF q.v > 1 THEN q.v ELSE 1) ELSE 0

\* const numStations = ... with this.options.minInterval
NumStations(routePoints) == StationCount(calculateTotalDistance(routePoints), minInterval)

\* The first loop of calculateDistanceAlongRoute: the index (1-based) of the route
\* point nearest to targetPoint, the first one on a tie.
RECURSIVE ClosestLoop(_, _, _, _, _)
ClosestLoop(routePoints, targetPoint, i, closestDistance, bestIndex) ==
  IF i > Len(routePoints) THEN bestIndex
  ELSE LET distance == calculateDistance(routePoints[i], targetPoint)
       IN  IF Lt(distance, closestDistance)
           THEN ClosestLoop(routePoints, targetPoint, i + 1, distance, i)
           ELSE ClosestLoop(routePoints, targetPoint, i + 1, closestDistance, bestIndex)

calculateDistanceAlongRoute(routePoints, targetPoint) ==
  LET bestIndex == ClosestLoop(routePoints, targetPoint, 1, PInf, 1)
  IN  calculateTotalDistance(SubSeq(routePoints, 1, bestIndex))

\* Mutant: the last candidate is taken.
LastStation(stations) == stations[Len(stations)]

\* const bestStation = stations[0]
BestStation(stations) == stations[1]

\* { ...bestStation, routeDistance, routePoint }
Enriched(bestStation, routeDistance, point) ==
  [id |-> bestStation.id, name |-> bestStation.name, brand |-> bestStation.brand,
   lat |-> bestStation.lat, lon |-> bestStation.lon, distance |-> bestStation.distance,
   routeDistance |-> routeDistance, routePoint |-> point]

\* The body of the for-loop of findFuelStations once the lookup has returned.
Collect(collected, stations, routePoints, point) ==
  IF Len(stations) > 0
  THEN Append(collected,
              Enriched(BestStation(stations),
                       calculateDistanceAlongRoute(routePoints, point), point))
  ELSE collected

\* Mutant: the collected list is returned in collection order.
KeepCollectionOrder(collected) == collected

\* return fuelStations.sort((a, b) => a.routeDistance - b.routeDistance)
SortStations(collected) == SortByKey(collected, "routeDistance")

(* --------------------------- external service ------------------------- *)

\* How a request can end: fetch rejects, the status is not ok, the body is not
\* what the code can read as JSON with an element list (json() rejects, or the
\* element list cannot be walked), or a parsed answer, whose element list may be
\* absent.  A request may also never be answered.
Failures == { "networkError", "httpError", "malformed" }

Outcomes ==
  { [kind |-> f, hasElements |-> FALSE, elements |-> << >>] : f \in Failures }
    \cup { [kind |-> "ok", hasElements |-> FALSE, elements |-> << >>] }
    \cup { [kind |-> "ok", hasElements |-> TRUE, elements |-> b] : b \in Bodies }

\* data.elements || []
ElementsOf(outcome) == IF outcome.hasElements THEN outcome.elements ELSE << >>

\* The try block reaches cache.set exactly when nothing was thrown.
Succeeds(outcome) == outcome.kind = "ok"

\* What findNearbyFuelStations returns after a cache miss.
Fetched(outcome, lat, lon) ==
  IF Succeeds(outcome) THEN ProcessElements(ElementsOf(outcome), lat, lon) ELSE << >>

\* The cache after a cache miss has been answered.
CacheAfter(c, key, outcome, lat, lon) ==
  IF Succeeds(outcome) THEN CacheSet(c, key, Fetched(outcome, lat, lon))
  ELSE CacheAfterFailure(c, key)

(* ---------------------------- text and numbers ------------------------- *)

\* Decimals of a degree the model keeps (one latitude unit is 0.0001 degree), and
\* of a metre.
CoordDecimals == 4

MeterDecimals == 0

DigitChars == << "0", "1", "2", "3", "4", "5", "6", "7", "8", "9" >>

IsDigit(c) == \E d \in 1..10 : DigitChars[d] = c

DigitOf(c) == (CHOOSE d \in 1..10 : DigitChars[d] = c) - 1

RECURSIVE Pow10(_)
Pow10(n) == IF n = 0 THEN 1 ELSE 10 * Pow10(n - 1)

RECURSIVE NatToText(_)
NatToText(n) ==
  IF n < 10 THEN << DigitChars[n + 1] >>
  ELSE NatToText(n \div 10) \o << DigitChars[(n % 10) + 1] >>

\* The digits after the point of frac / 10^width, without trailing zeros.
RECURSIVE FracToText(_, _)
FracToText(frac, width) ==
  IF frac = 0 THEN << >>
  ELSE << DigitChars[(frac \div Pow10(width - 1)) + 1] >>
         \o FracToText(frac % Pow10(width - 1), width - 1)

\* Mutant: the number is written with one decimal less.
NumberToTextShort(x, decimals) ==
  IF IsFin(x) /\ x.v >= 0 /\ decimals > 0
  THEN NatToText(x.v \div Pow10(decimals))
         \o (IF (x.v % Pow10(decimals)) \div 10 = 0 THEN << >>
             ELSE << "." >> \o FracToText((x.v % Pow10(decimals)) \div 10, decimals - 1))
  ELSE << "NaN" >>

\* `${x}`: the text of a number that counts units of 10^-decimals.
NumberToText(x, decimals) ==
  CASE x.k = "nan" -> << "NaN" >>
    [] x.k = "undef" -> << "undefined" >>
    [] x.k = "pinf" -> << "Infinity" >>
    [] x.k = "ninf" -> << "-", "Infinity" >>
    [] OTHER ->
         LET a == IF x.v < 0 THEN 0 - x.v ELSE x.v
             frac == a % Pow10(decimals)
         IN  (IF x.v < 0 THEN << "-" >> ELSE << >>)
               \o NatToText(a \div Pow10(decimals))
               \o (IF frac = 0 THEN << >> ELSE << "." >> \o FracToText(frac, decimals))

RECURSIVE LeadingDigits(_)
LeadingDigits(text) ==
  IF text = << >> \/ ~IsDigit(Head(text)) THEN << >>
  ELSE << Head(text) >> \o LeadingDigits(Tail(text))

RECURSIVE DigitsValue(_, _)
DigitsValue(digits, acc) ==
  IF digits = << >> THEN acc
  ELSE DigitsValue(Tail(digits), 10 * acc + DigitOf(Head(digits)))

\* The first width digits after the point, as a count of units of 10^-width.
RECURSIVE FracValue(_, _)
FracValue(digits, width) ==
  IF width = 0 \/ digits = << >> THEN 0
  ELSE DigitOf(Head(digits)) * Pow10(width - 1) + FracValue(Tail(digits), width - 1)

\* parseFloat(text): the longest numeric prefix (sign, digits, point, digits), or
\* Infinity, or NaN when the text does not start with a number.
parseFloat(text, decimals) ==
  LET negative == text # << >> /\ Head(text) = "-"
      body == IF text # << >> /\ Head(text) \in {"-", "+"} THEN Tail(text) ELSE text
      int == LeadingDigits(body)
      rest == SubSeq(body, Len(int) + 1, Len(body))
      frac == IF rest # << >> /\ Head(rest) = "." THEN LeadingDigits(Tail(rest)) ELSE << >>
      magnitude == DigitsValue(int, 0) * Pow10(decimals) + FracValue(frac, decimals)
  IN  IF int = << >> /\ frac = << >>
      THEN IF body # << >> /\ Head(body) = "Infinity"
           THEN (IF negative THEN NInf ELSE PInf)
           ELSE NaN
      ELSE Fin(IF negative THEN 0 - magnitude ELSE magnitude)

\* Math.round(meters / 1000)
RoundedKm(meters) ==
  IF IsFin(meters) THEN Fin((meters.v + 500) \div 1000)
  ELSE IF meters.k = "undef" THEN NaN ELSE meters

(* ------------------------------ documents ------------------------------ *)

\* A track document is the sequence of its point and waypoint elements; the
\* prologue, the <trk>, <name> and <trkseg> wrappers and the closing tag hold no
\* point.  A point element has a tag (trkpt, rtept), the attribute that comes
\* first (lat, lon), a form (container with a closing tag, or selfClosing), the
\* attribute texts, and the texts of its <ele> children (none or one).
PointElement(tag, first, form, lat, lon, ele) ==
  [tag |-> tag, first |-> first, form |-> form, lat |-> lat, lon |-> lon, ele |-> ele]

\* The index of the first element from i on that ends with </trkpt>, 0 if none.
RECURSIVE NextClose(_, _)
NextClose(content, i) ==
  IF i > Len(content) THEN 0
  ELSE IF content[i].tag = "trkpt" /\ content[i].form = "container" THEN i
       ELSE NextClose(content, i + 1)

\* pointContent.match(eleRegex): the first <ele> in what lies between the start
\* tag of element i and the closing tag of element j.
RECURSIVE FirstEle(_, _, _)
FirstEle(content, i, j) ==
  IF i > j THEN << >>
  ELSE IF content[i].ele # << >> THEN content[i].ele
       ELSE FirstEle(content, i + 1, j)

\* Patterns 1 and 2: a trkpt start tag with the attributes in the given order, then
\* lazily everything up to the next </trkpt>; the scan resumes behind that tag.
RECURSIVE MatchContainers(_, _, _)
MatchContainers(content, i, first) ==
  IF i > Len(content) THEN << >>
  ELSE LET j == NextClose(content, i)
       IN  IF /\ content[i].tag = "trkpt"
              /\ content[i].first = first
              /\ content[i].lat # << >>
              /\ content[i].lon # << >>
              /\ j # 0
           THEN LET eleMatch == FirstEle(content, i, j)
                IN  << [lat |-> parseFloat(content[i].lat, CoordDecimals),
                        lon |-> parseFloat(content[i].lon, CoordDecimals),
                        ele |-> IF eleMatch # << >>
                                THEN parseFloat(eleMatch[1], MeterDecimals)
                                ELSE Fin(0)] >>
                      \o MatchContainers(content, j + 1, first)
           ELSE MatchContainers(content, i + 1, first)

\* Patterns 3, 4 and 5: a start tag with the attributes in the given order;
\* patterns 3 and 4 want it closed by "/>" before any other "/".
RECURSIVE MatchTags(_, _, _, _)
MatchTags(content, tag, first, forms) ==
  IF content = << >> THEN << >>
  ELSE LET e == Head(content)
           rest == MatchTags(Tail(content), tag, first, forms)
       IN  IF /\ e.tag = tag
              /\ e.first = first
              /\ e.form \in forms
              /\ e.lat # << >>
              /\ e.lon # << >>
           THEN << [lat |-> parseFloat(e.lat, CoordDecimals),
                    lon |-> parseFloat(e.lon, CoordDecimals),
                    ele |-> Fin(0)] >> \o rest
           ELSE rest

pattern1(content) == MatchContainers(content, 1, "lat")

pattern2(content) == MatchContainers(content, 1, "lon")

pattern3(content) == MatchTags(content, "trkpt", "lat", {"selfClosing"})

pattern4(content) == MatchTags(content, "trkpt", "lon", {"selfClosing"})

pattern5(content) == MatchTags(content, "rtept", "lat", {"container", "selfClosing"})

\* The points array of parseGPX: each pattern is tried only while points is empty.
ParsedPoints(content) ==
  IF pattern1(content) # << >> THEN pattern1(content)
  ELSE IF pattern2(content) # << >> THEN pattern2(content)
  ELSE IF pattern3(content) # << >> THEN pattern3(content)
  ELSE IF pattern4(content) # << >> THEN pattern4(content)
  ELSE pattern5(content)

parseGPX(content) ==
  LET points == ParsedPoints(content)
  IN  [tracks |-> IF Len(points) > 0
                  THEN << [name |-> << "Route" >>, segments |-> << points >>] >>
                  ELSE << >>]

\* gpxData.tracks[0]?.segments[0] || []
RoutePointsOf(gpxData) ==
  IF Len(gpxData.tracks) > 0 THEN gpxData.tracks[1].segments[1] ELSE << >>

\* Mutant: the elevation is left out.
TrackPointWithoutEle(point) ==
  PointElement("trkpt", "lat", "container",
               NumberToText(point.lat, CoordDecimals),
               NumberToText(point.lon, CoordDecimals), << >>)

\* <trkpt lat="${point.lat}" lon="${point.lon}"> with <ele> when ele is defined.
TrackPointElement(point) ==
  PointElement("trkpt", "lat", "container",
               NumberToText(point.lat, CoordDecimals),
               NumberToText(point.lon, CoordDecimals),
               IF point.ele # Undef THEN << NumberToText(point.ele, MeterDecimals) >>
               ELSE << >>)

\* Mutant: every waypoint is labelled #1.
WaypointNumberOne(i) == 1

\* const stationNumber = i + 1, i counted from 0.
StationNumber(i) == i + 1

\* The <wpt> of station i (0-based) of the list; "(pump)" stands for the fuel
\* pump sign the name starts with.
WaypointElement(station, i) ==
  LET distanceKm == NumberToText(RoundedKm(station.routeDistance), MeterDecimals)
      stationNumber == NatToText(StationNumber(i))
  IN  [tag |-> "wpt", first |-> "lat", form |-> "container",
       lat |-> NumberToText(station.lat, CoordDecimals),
       lon |-> NumberToText(station.lon, CoordDecimals),
       ele |-> << >>,
       name |-> << "(pump) #" >> \o stationNumber \o << " " >> \o station.brand
                  \o << " (" >> \o distanceKm \o << "km)" >>,
       desc |-> station.name \o << " - " >> \o station.brand \o << " - " >>
                  \o distanceKm \o << "km from start" >>,
       sym |-> << "Gas Station" >>,
       type |-> << "Fuel" >>]

generateGPX(gpxData, stations) ==
  (IF Len(gpxData.tracks) > 0 /\ Len(gpxData.tracks[1].segments) > 0
   THEN [i \in 1..Len(gpxData.tracks[1].segments[1]) |->
           TrackPointElement(gpxData.tracks[1].segments[1][i])]
   ELSE << >>)
    \o [i \in 1..Len(stations) |-> WaypointElement(stations[i], i - 1)]

(* --------------------------- inputs: documents ------------------------- *)

LonText == << "4" >>

\* Point elements in every encoding the parser looks for, and route points with
\* the longitude first.
DocElements ==
  { PointElement("trkpt", "lat", "container", << "5", "0" >>, LonText, << << "1", "2" >> >>),
    PointElement("trkpt", "lat", "container", << "5", "0", ".", "5", "5" >>, LonText, << >>),
    PointElement("trkpt", "lon", "container", << "5", "0", ".", "0", "0", "0", "3" >>,
                 LonText, << << "7" >> >>),
    PointElement("trkpt", "lat", "selfClosing", << "5", "0" >>, LonText, << >>),
    PointElement("trkpt", "lon", "selfClosing", << "5", "0", ".", "3", "7" >>, LonText, << >>),
    PointElement("rtept", "lat", "container", << "5", "0" >>, LonText, << << "3", "0" >> >>),
    PointElement("rtept", "lon", "container", << "5", "0", ".", "3", "7" >>, LonText, << >>) }

\* The uploaded documents: up to MaxLen point elements in any order, or none.
Documents == SeqsUpTo(DocElements, MaxLen)

(* -------------------------------- state -------------------------------- *)

VARIABLES
  routePoints,   \* the route handed to the finder
  pc,            \* the handler: "received", "rejected", "responded"; the run: "idle",
                 \* "loop", "awaiting", "done"; the harnesses: "sampled", "looked"
  numSamples,    \* the sample count passed to sampleRoutePoints
  samplePoints,  \* what sampleRoutePoints returned
  idx,           \* number of samples the loop has finished
  cache,         \* this.cache: cache key -> candidate list
  inflight,      \* the outstanding request, << >> when there is none
  fuelStations,  \* the list the loop collects
  returned,      \* probe: what findNearbyFuelStations returned for each sample so far
  requestLog,    \* probe: the external requests issued, with how each ended
  result,        \* what findFuelStations returned
  document,      \* the uploaded track document, << >> when the route is given directly
  response,      \* the handler's answer: "none", "noRouteData" (400), "success" (200)
  output,        \* the output files written, each a rendered document
  handlers,      \* the server: request -> the state of its handler
  finders,       \* the server: finder -> its cache
  cacheLog,      \* probe: the cache reads and writes, with finder, key and request
  now,           \* the server: Date.now()
  tmpDir         \* the server: the temp directory, file name -> file

\* The state of a single run and of its handler.
runVars ==
  << routePoints, pc, numSamples, samplePoints, idx, cache, inflight, fuelStations,
     returned, requestLog, result, document, response, output >>

\* The state of the server with its concurrent requests.
serverVars == << handlers, finders, cacheLog, now, tmpDir >>

vars ==
  << routePoints, pc, numSamples, samplePoints, idx, cache, inflight, fuelStations,
     returned, requestLog, result, document, response, output,
     handlers, finders, cacheLog, now, tmpDir >>

\* No request is being served.
ServerIdle ==
  /\ handlers = << >>
  /\ finders = << >>
  /\ cacheLog = {}
  /\ now = 0
  /\ tmpDir = << >>


Init ==
  /\ routePoints \in Routes
  /\ pc = "idle"
  /\ numSamples = 0
  /\ samplePoints = << >>
  /\ idx = 0
  /\ cache = << >>
  /\ inflight = << >>
  /\ fuelStations = << >>
  /\ returned = << >>
  /\ requestLog = << >>
  /\ result = << >>
  /\ document = << >>
  /\ response = "none"
  /\ output = << >>
  /\ ServerIdle

\* Mutant: the samples are taken from the end.
PointFromEnd == samplePoints[Len(samplePoints) - idx]

\* The sample the loop is at.
CurrentPoint == samplePoints[idx + 1]

CurrentKey == cacheKey(CurrentPoint.lat, CurrentPoint.lon)

\* findFuelStations up to its loop: count, samples.
Start ==
  /\ pc = "idle"
  /\ numSamples' = NumStations(routePoints)
  /\ samplePoints' = sampleRoutePoints(routePoints, NumStations(routePoints))
  /\ pc' = IF sampleRoutePoints(routePoints, NumStations(routePoints)) = << >>
           THEN "done" ELSE "loop"
  /\ UNCHANGED << serverVars,
                  document, response, output, routePoints, idx, cache, inflight, fuelStations, returned,
                  requestLog, result >>

\* Mutant: the loop is left after its first pass.
LoopDoneAfterFirst(finished, total) == TRUE

\* for (const point of samplePoints): the loop ends after the last sample.
LoopDone(finished, total) == finished = total

\* One sample finished with the list `stations`: collect, move on, and after the
\* last sample sort and return.
Advance(stations) ==
  LET collected == Collect(fuelStations, stations, routePoints, CurrentPoint)
      last == LoopDone(idx + 1, Len(samplePoints))
  IN  /\ returned' = Append(returned, stations)
      /\ idx' = idx + 1
      /\ fuelStations' = IF last THEN SortStations(collected) ELSE collected
      /\ result' = IF last THEN SortStations(collected) ELSE result
      /\ pc' = IF last THEN "done" ELSE "loop"

\* findNearbyFuelStations, cache hit.
LookupHit ==
  /\ pc = "loop"
  /\ CacheHas(cache, CurrentKey)
  /\ Advance(cache[CurrentKey])
  /\ UNCHANGED << serverVars,
                  document, response, output, routePoints, numSamples, samplePoints, cache, inflight, requestLog >>

\* findNearbyFuelStations, cache miss: the request goes out.
SendRequest ==
  /\ pc = "loop"
  /\ ~CacheHas(cache, CurrentKey)
  /\ inflight' = << [key |-> CurrentKey, lat |-> CurrentPoint.lat, lon |-> CurrentPoint.lon] >>
  /\ requestLog' = Append(requestLog, [key |-> CurrentKey, outcome |-> "pending"])
  /\ pc' = "awaiting"
  /\ UNCHANGED << serverVars,
                  document, response, output, routePoints, numSamples, samplePoints, idx, cache, fuelStations,
                  returned, result >>

\* The request is answered and findNearbyFuelStations runs to its return.
Respond ==
  /\ pc = "awaiting"
  /\ \E outcome \in Outcomes :
       LET req == inflight[1]
       IN  /\ cache' = CacheAfter(cache, req.key, outcome, req.lat, req.lon)
           /\ requestLog' = [requestLog EXCEPT ![Len(requestLog)].outcome = outcome.kind]
           /\ Advance(Fetched(outcome, req.lat, req.lon))
  /\ inflight' = << >>
  /\ UNCHANGED << serverVars,
                  document, response, output, routePoints, numSamples, samplePoints >>

Next == Start \/ LookupHit \/ SendRequest \/ Respond

Spec == Init /\ [][Next]_vars

\* The steps the run takes on its own; Respond needs the service's answer.
OwnStep == Start \/ LookupHit \/ SendRequest

(* ------------------------------- handler ------------------------------- *)

\* A request arrives with an uploaded document.
HandlerInit ==
  /\ document \in Documents
  /\ routePoints = << >>
  /\ pc = "received"
  /\ numSamples = 0
  /\ samplePoints = << >>
  /\ idx = 0
  /\ cache = << >>
  /\ inflight = << >>
  /\ fuelStations = << >>
  /\ returned = << >>
  /\ requestLog = << >>
  /\ result = << >>
  /\ response = "none"
  /\ output = << >>
  /\ ServerIdle

\* Mutant: a route without points is let through.
AlwaysSomeRoute(points) == FALSE

\* if (routePoints.length === 0)
NoRouteData(points) == Len(points) = 0

\* The handler parses the document; without route points it answers 400 and
\* returns, otherwise it builds a finder and calls findFuelStations.
Parse ==
  /\ pc = "received"
  /\ routePoints' = RoutePointsOf(parseGPX(document))
  /\ IF NoRouteData(RoutePointsOf(parseGPX(document)))
     THEN response' = "noRouteData" /\ pc' = "rejected"
     ELSE response' = response /\ pc' = "idle"
  /\ UNCHANGED << serverVars, document, output, numSamples, samplePoints, idx, cache, inflight,
                  fuelStations, returned, requestLog, result >>

\* findFuelStations has returned: the handler renders the document, writes the
\* output file and answers 200.
Finish ==
  /\ pc = "done"
  /\ output' = Append(output, generateGPX(parseGPX(document), result))
  /\ response' = "success"
  /\ pc' = "responded"
  /\ UNCHANGED << serverVars,
                  document, routePoints, numSamples, samplePoints, idx, cache, inflight,
                  fuelStations, returned, requestLog, result >>

HandlerNext == Parse \/ Start \/ LookupHit \/ SendRequest \/ Respond \/ Finish

HandlerSpec == HandlerInit /\ [][HandlerNext]_vars

(* --------------------------- sampling harness -------------------------- *)

\* sampleRoutePoints called directly with any count from 1 to MaxCount.
SampleCall ==
  /\ pc = "idle"
  /\ \E n \in 1..MaxCount :
       /\ numSamples' = n
       /\ samplePoints' = sampleRoutePoints(routePoints, n)
  /\ pc' = "sampled"
  /\ UNCHANGED << serverVars,
                  document, response, output, routePoints, idx, cache, inflight, fuelStations, returned,
                  requestLog, result >>

SampleSpec == Init /\ [][SampleCall]_vars

(* ---------------------------- lookup harness --------------------------- *)

\* Query centers: three near 50 N and one 33 m north of the equator.
Centers ==
  { [lat |-> Fin(500000), lon |-> Lon0], [lat |-> Fin(500003), lon |-> Lon0],
    [lat |-> Fin(505500), lon |-> Lon0], [lat |-> Fin(3), lon |-> Lon0] }

\* Answers with more than three fuel elements in reach, and with one on the equator.
LookupOutcomes ==
  Outcomes \cup
    { [kind |-> "ok", hasElements |-> TRUE, elements |-> b] :
        b \in { << ShellNode, TotalWay, CafeNode, EssoNode, FarNode, BpNode >>,
                << EquatorNode >> } }

\* findNearbyFuelStations called once on a fresh finder with any center, the
\* service answering with any outcome.  inflight keeps the request that was made,
\* requestLog how it ended and the element list the code read.
LookupCall ==
  /\ pc = "idle"
  /\ \E center \in Centers, outcome \in LookupOutcomes :
       LET key == cacheKey(center.lat, center.lon)
       IN  /\ inflight' = << [key |-> key, lat |-> center.lat, lon |-> center.lon] >>
           /\ requestLog' = << [key |-> key, outcome |-> outcome.kind,
                                elements |-> ElementsOf(outcome)] >>
           /\ cache' = CacheAfter(cache, key, outcome, center.lat, center.lon)
           /\ returned' = << Fetched(outcome, center.lat, center.lon) >>
  /\ pc' = "looked"
  /\ UNCHANGED << serverVars,
                  document, response, output, routePoints, numSamples, samplePoints, idx, fuelStations, result >>

LookupSpec == Init /\ [][LookupCall]_vars

(* -------------------------------- server ------------------------------- *)

\* The server processes up to MaxRequests uploads at once; an await in a handler
\* (the service's answer, the write of the output file) is where another handler
\* may run.  Date.now() is the clock `now`, in milliseconds, read up to MaxTime.
MaxRequests == 2

MaxTime == 1

Requests == 1..MaxRequests

\* A track out and back (81.4 km, two samples at the same place) and a document
\* whose points no pattern reads.
LoopDocument ==
  << PointElement("trkpt", "lat", "container", << "5", "0" >>, LonText, << >>),
     PointElement("trkpt", "lat", "container", << "5", "0", ".", "3", "7" >>, LonText, << >>),
     PointElement("trkpt", "lat", "container", << "5", "0" >>, LonText, << >>) >>

UnreadDocument ==
  << PointElement("rtept", "lon", "container", << "5", "0", ".", "3", "7" >>, LonText, << >>) >>

ServerDocuments == { LoopDocument, UnreadDocument }

\* The service fails or answers with one station.
ServerOutcomes ==
  { o \in Outcomes : \/ o.kind = "networkError"
                     \/ o.kind = "ok" /\ o.hasElements /\ o.elements = << ShellNode >> }

\* Mutant: one finder, built once, serves every request.
SharedFinder(r) == 1

\* const finder = new FuelStationFinder(): the finder, and with it the cache, of
\* request r is built for that request.
FinderOf(r) == r

\* `enhanced-route-${Date.now()}.gpx`
OutputFilename(time) == [prefix |-> "enhanced-route-", stamp |-> time, suffix |-> ".gpx"]

NoFilename == [prefix |-> "", stamp |-> 0, suffix |-> ""]

NewRequest(doc) ==
  [pc |-> "received", document |-> doc, routePoints |-> << >>, samplePoints |-> << >>,
   idx |-> 0, fuelStations |-> << >>, inflight |-> << >>, sent |-> 0,
   outputFilename |-> NoFilename, response |-> "none", downloaded |-> "no"]

ServerInit ==
  /\ handlers \in [Requests -> { NewRequest(doc) : doc \in ServerDocuments }]
  /\ finders = [f \in Requests |-> << >>]
  /\ cacheLog = {}
  /\ now = 0
  /\ tmpDir = << >>
  /\ routePoints = << >>
  /\ pc = "server"
  /\ numSamples = 0
  /\ samplePoints = << >>
  /\ idx = 0
  /\ cache = << >>
  /\ inflight = << >>
  /\ fuelStations = << >>
  /\ returned = << >>
  /\ requestLog = << >>
  /\ result = << >>
  /\ document = << >>
  /\ response = "none"
  /\ output = << >>

\* The sample the loop of request h is at, and its cache key.
PointOf(h) == h.samplePoints[h.idx + 1]

KeyOf(h) == cacheKey(PointOf(h).lat, PointOf(h).lon)

\* The loop of request h after one sample has finished with the list `stations`.
Advanced(h, stations) ==
  LET collected == Collect(h.fuelStations, stations, h.routePoints, PointOf(h))
      last == LoopDone(h.idx + 1, Len(h.samplePoints))
  IN  [h EXCEPT !.idx = h.idx + 1,
                !.fuelStations = IF last THEN SortStations(collected) ELSE collected,
                !.inflight = << >>,
                !.pc = IF last THEN "done" ELSE "loop"]

\* The handler of request r parses the upload, answers 400 without route points,
\* otherwise builds its finder and enters findFuelStations up to the loop.
ServerParse ==
  \E r \in Requests :
    LET h == handlers[r]
        points == RoutePointsOf(parseGPX(h.document))
        samples == sampleRoutePoints(points, NumStations(points))
    IN  /\ h.pc = "received"
        /\ handlers' =
             [handlers EXCEPT ![r] =
                IF NoRouteData(points)
                THEN [h EXCEPT !.pc = "rejected", !.response = "noRouteData"]
                ELSE [h EXCEPT !.routePoints = points, !.samplePoints = samples,
                               !.pc = IF samples = << >> THEN "done" ELSE "loop"]]
        /\ UNCHANGED << runVars, finders, cacheLog, now, tmpDir >>

\* findNearbyFuelStations of request r, cache hit in its finder's cache.
ServerLookupHit ==
  \E r \in Requests :
    LET h == handlers[r]
        c == finders[FinderOf(r)]
    IN  /\ h.pc = "loop"
        /\ CacheHas(c, KeyOf(h))
        /\ handlers' = [handlers EXCEPT ![r] = Advanced(h, c[KeyOf(h)])]
        /\ cacheLog' = cacheLog \cup
             { [op |-> "get", finder |-> FinderOf(r), key |-> KeyOf(h), request |-> r] }
        /\ UNCHANGED << runVars, finders, now, tmpDir >>

\* findNearbyFuelStations of request r, cache miss: the request goes out.
ServerSendRequest ==
  \E r \in Requests :
    LET h == handlers[r]
    IN  /\ h.pc = "loop"
        /\ ~CacheHas(finders[FinderOf(r)], KeyOf(h))
        /\ handlers' =
             [handlers EXCEPT ![r] =
                [h EXCEPT !.pc = "awaiting", !.sent = h.sent + 1,
                          !.inflight = << [key |-> KeyOf(h), lat |-> PointOf(h).lat,
                                           lon |-> PointOf(h).lon] >>]]
        /\ UNCHANGED << runVars, finders, cacheLog, now, tmpDir >>

\* The request of request r is answered: its finder's cache is set on success and
\* the loop moves on.
ServerRespond ==
  \E r \in Requests, outcome \in ServerOutcomes :
    LET h == handlers[r]
        req == h.inflight[1]
    IN  /\ h.pc = "awaiting"
        /\ finders' = [finders EXCEPT ![FinderOf(r)] =
                         CacheAfter(finders[FinderOf(r)], req.key, outcome, req.lat, req.lon)]
        /\ cacheLog' = IF Succeeds(outcome)
                       THEN cacheLog \cup { [op |-> "set", finder |-> FinderOf(r),
                                             key |-> req.key, request |-> r] }
                       ELSE cacheLog
        /\ handlers' = [handlers EXCEPT ![r] = Advanced(h, Fetched(outcome, req.lat, req.lon))]
        /\ UNCHANGED << runVars, now, tmpDir >>

\* findFuelStations has returned to the handler of request r: it renders the
\* document, names the output file after the clock and starts writing it.
ServerName ==
  \E r \in Requests :
    LET h == handlers[r]
    IN  /\ h.pc = "done"
        /\ handlers' = [handlers EXCEPT ![r] =
                          [h EXCEPT !.pc = "writing", !.outputFilename = OutputFilename(now)]]
        /\ UNCHANGED << runVars, finders, cacheLog, now, tmpDir >>

\* What a file of the temp directory holds: the rendered document, and as probes
\* the request that wrote it and the requests whose download scheduled its unlink.
FileOf(r, h) ==
  [content |-> generateGPX(parseGPX(h.document), h.fuelStations), owner |-> r, unlinkFor |-> {}]

\* writeFile has finished, replacing any file of that name, and the handler of
\* request r answers 200 with outputFilename and downloadUrl.
ServerWrite ==
  \E r \in Requests :
    LET h == handlers[r]
        name == h.outputFilename
    IN  /\ h.pc = "writing"
        /\ tmpDir' = [n \in DOMAIN tmpDir \cup {name} |->
                        IF n = name THEN FileOf(r, h) ELSE tmpDir[n]]
        /\ handlers' = [handlers EXCEPT ![r] =
                          [h EXCEPT !.pc = "responded", !.response = "success"]]
        /\ UNCHANGED << runVars, finders, cacheLog, now >>

\* The client of request r fetches its downloadUrl: the download handler sends the
\* file of that name and schedules its unlink.  downloaded keeps whose document
\* was sent.
Download ==
  \E r \in Requests :
    LET h == handlers[r]
        name == h.outputFilename
    IN  /\ h.pc = "responded"
        /\ h.response = "success"
        /\ h.downloaded = "no"
        /\ name \in DOMAIN tmpDir
        /\ handlers' = [handlers EXCEPT ![r] =
                          [h EXCEPT !.downloaded =
                             IF tmpDir[name].owner = r THEN "own" ELSE "other"]]
        /\ tmpDir' = [tmpDir EXCEPT ![name].unlinkFor = tmpDir[name].unlinkFor \cup {r}]
        /\ UNCHANGED << runVars, finders, cacheLog, now >>

\* A millisecond passes.
Tick ==
  /\ pc = "server"
  /\ now < MaxTime
  /\ now' = now + 1
  /\ UNCHANGED << runVars, handlers, finders, cacheLog, tmpDir >>

ServerNext ==
  \/ ServerParse
  \/ ServerLookupHit
  \/ ServerSendRequest
  \/ ServerRespond
  \/ ServerName
  \/ ServerWrite
  \/ Download
  \/ Tick

ServerSpec == ServerInit /\ [][ServerNext]_vars

(* ------------------------------- claims -------------------------------- *)

SampleKey(i) == cacheKey(samplePoints[i].lat, samplePoints[i].lon)

Defined(point) == IsFin(point.lat) /\ IsFin(point.lon) /\ IsFin(point.ele)

SamePosition(p, q) == p.lat = q.lat /\ p.lon = q.lon

\* C1: sampleRoutePoints(points, 1) returns exactly one sample, the first point of
\* the sequence.
C1_CountOneReturnsStart ==
  (pc = "sampled" /\ numSamples = 1) => samplePoints = << routePoints[1] >>

\* C2: sampleRoutePoints(points, n) returns exactly n samples and the last one has
\* the position of the last input point, for every non-empty sequence and n >= 1.
C2_CountAndLastSample ==
  pc = "sampled" =>
    /\ Len(samplePoints) = numSamples
    /\ SamePosition(samplePoints[Len(samplePoints)], routePoints[Len(routePoints)])

\* C3 as stated: at most one external request per cache key in a run, failed
\* requests included.
C3_AtMostOneRequestPerKey ==
  \A i, j \in DOMAIN requestLog :
    (i < j) => requestLog[i].key # requestLog[j].key

\* C3 as amended: a key is requested again only after every earlier request for
\* it failed; so at most one request per key is answered successfully and none
\* is issued after that one.
C3_NoRequestAfterSuccess ==
  \A i, j \in DOMAIN requestLog :
    (i < j /\ requestLog[i].key = requestLog[j].key) => requestLog[i].outcome \in Failures

\* Two samples of a finished run share a key, and the only request for that key
\* was answered successfully.
C3_Witness ==
  /\ pc = "done"
  /\ \E i, j \in DOMAIN samplePoints :
       /\ i < j
       /\ SampleKey(i) = SampleKey(j)
       /\ \E r \in DOMAIN requestLog :
            /\ requestLog[r].key = SampleKey(i)
            /\ requestLog[r].outcome = "ok"
            /\ \A q \in DOMAIN requestLog : requestLog[q].key = SampleKey(i) => q = r

\* C4: when the external call fails (network error, non-ok status, a body that
\* cannot be read), findNearbyFuelStations returns the empty list to its caller,
\* which carries on, and the cache is left as it was: no entry for the key.
C4_FailureNotCached ==
  [][ (pc = "awaiting" /\ pc' # "awaiting"
         /\ requestLog'[Len(requestLog')].outcome \in Failures)
      => /\ cache' = cache
         /\ ~CacheHas(cache', inflight[1].key)
         /\ returned' = Append(returned, << >>)
         /\ pc' \in {"loop", "done"} ]_vars

\* A request has failed and its key has no cache entry.
C4_Witness ==
  /\ requestLog # << >>
  /\ requestLog[Len(requestLog)].outcome \in Failures
  /\ ~CacheHas(cache, requestLog[Len(requestLog)].key)
  /\ returned # << >>
  /\ returned[Len(returned)] = << >>

\* C5: a successful lookup stores the list it returns under the key; an entry is
\* never removed or replaced; a call whose key is cached returns the stored list
\* and issues no request.
C5_CacheIsPermanent ==
  [][ /\ \A k \in DOMAIN cache : CacheHas(cache', k) /\ cache'[k] = cache[k]
      /\ (pc = "loop" /\ CurrentKey \in DOMAIN cache)
           => /\ returned' = Append(returned, cache[CurrentKey])
              /\ requestLog' = requestLog
              /\ inflight' = << >>
      /\ (pc = "awaiting" /\ pc' # "awaiting"
            /\ requestLog'[Len(requestLog')].outcome = "ok")
           => /\ CacheHas(cache', inflight[1].key)
              /\ cache'[inflight[1].key] = returned'[Len(returned')] ]_vars

\* A call was served from the cache with a non-empty list.
C5_Witness ==
  /\ Len(requestLog) < Len(returned)
  /\ \E i \in DOMAIN returned :
       /\ returned[i] # << >>
       /\ \E j \in DOMAIN returned : j > i /\ SampleKey(j) = SampleKey(i)
                                            /\ returned[j] = returned[i]

\* C6: a lookup is bounded in time, so that a request the service never answers
\* cannot hold the run for ever: while a request is outstanding the run has a step
\* of its own to take (the expiry of the lookup's timeout, which abandons it).
\* The model has no clock, so a timer that can expire is a step that is enabled.
C6_LookupIsBounded == pc = "awaiting" => ENABLED OwnStep

\* The divisors the sampler evaluates for a call: numSamples - 1 for every target
\* distance, and the segment length for every target found on a segment.
DividesByZero(points, n) ==
  \/ n >= 1 /\ TargetDivisor(n) = 0
  \/ \E i \in 0..(n - 1) :
       LET s == FindSegment(points, TargetDistance(points, n, i), 2, Fin(0))
       IN  s.found /\ s.seg = Fin(0)

\* C7: for every non-empty route and the sample count the enricher computes for
\* it, no division of the sampler has a zero divisor and every sample has defined
\* coordinates.
C7_NoZeroDivisor ==
  pc # "idle" =>
    /\ ~DividesByZero(routePoints, numSamples)
    /\ \A i \in DOMAIN samplePoints : Defined(samplePoints[i])

\* C8: no two entries of the list findFuelStations returns have the same station id.
C8_NoDuplicateStation ==
  pc = "done" =>
    \A i, j \in DOMAIN result : (i # j) => result[i].id # result[j].id

\* The samples whose lookup returned at least one candidate.
Served == { i \in DOMAIN returned : returned[i] # << >> }

\* C9: whatever the outcomes of the lookups, every sample is looked up, and the
\* returned list holds a station for every sample whose lookup returned a candidate.
C9_FailureDoesNotAbort ==
  pc = "done" =>
    /\ Len(returned) = Len(samplePoints)
    /\ \A i \in Served :
         \E e \in DOMAIN result :
           /\ result[e].routePoint = samplePoints[i]
           /\ \E c \in DOMAIN returned[i] : result[e].id = returned[i][c].id

\* A finished run in which a lookup failed and a later one returned a station.
C9_Witness ==
  /\ pc = "done"
  /\ \E i, j \in DOMAIN requestLog :
       /\ i < j
       /\ requestLog[i].outcome \in Failures
       /\ requestLog[j].outcome = "ok"
  /\ \E i, j \in DOMAIN returned : i < j /\ returned[i] = << >> /\ returned[j] # << >>

\* The station part of an enriched entry.
StationOf(e) ==
  [id |-> e.id, name |-> e.name, brand |-> e.brand, lat |-> e.lat, lon |-> e.lon,
   distance |-> e.distance]

\* C10: the returned list holds exactly one entry per sample with a non-empty
\* candidate list, carrying that list's first candidate, which is its nearest; a
\* sample with an empty list contributes nothing.
C10_OnePerServedSample ==
  pc = "done" =>
    /\ Len(result) = Cardinality(Served)
    /\ \A i \in Served :
         /\ \A c \in DOMAIN returned[i] : Le(returned[i][1].distance, returned[i][c].distance)
         /\ Cardinality({ e \in DOMAIN result :
                            /\ StationOf(result[e]) = returned[i][1]
                            /\ result[e].routePoint = samplePoints[i] })
              = Cardinality({ j \in Served :
                                /\ returned[j][1] = returned[i][1]
                                /\ samplePoints[j] = samplePoints[i] })

\* A finished run with a sample that had two candidates and a sample that had none.
C10_Witness ==
  /\ pc = "done"
  /\ \E i, j \in DOMAIN returned : Len(returned[i]) >= 2 /\ returned[j] = << >>
  /\ Len(result) < Len(samplePoints)

IsSortedBy(s, field) == \A i \in 1..(Len(s) - 1) : Le(s[i][field], s[i + 1][field])

\* C11: the list findFuelStations returns is in ascending order of routeDistance:
\* of two adjacent entries the earlier one has routeDistance <= the later one.
C11_ResultSorted == pc = "done" => IsSortedBy(result, "routeDistance")

\* A finished run whose last entry was collected for the second of three samples:
\* the sort moved it behind the entry of the third sample.
C11_Witness ==
  /\ pc = "done"
  /\ Len(samplePoints) = 3
  /\ Len(result) = 3
  /\ result[3].routePoint = samplePoints[2]
  /\ samplePoints[2] # samplePoints[3]
  /\ Lt(result[1].routeDistance, result[3].routeDistance)

\* An element's coordinate: its own, or the center of an area.
HasCoordinate(e) == (e.lat # Undef /\ e.lon # Undef) \/ (e.clat # Undef /\ e.clon # Undef)

CoordinateOf(e) ==
  IF e.lat # Undef /\ e.lon # Undef THEN [lat |-> e.lat, lon |-> e.lon]
  ELSE [lat |-> e.clat, lon |-> e.clon]

DistanceFrom(center, e) ==
  Haversine(center.lat, center.lon, CoordinateOf(e).lat, CoordinateOf(e).lon)

\* The elements of an answer that qualify as candidates around center.
Eligible(elements, center) ==
  { i \in DOMAIN elements :
      /\ elements[i].amenity = "fuel"
      /\ HasCoordinate(elements[i])
      /\ Le(DistanceFrom(center, elements[i]), Fin(maxDistance)) }

\* list holds exactly the nearest (at most 3) of the qualifying elements, nearest first.
IsNearestThree(list, elements, center) ==
  LET eligible == Eligible(elements, center)
  IN  /\ Len(list) = IF Cardinality(eligible) < 3 THEN Cardinality(eligible) ELSE 3
      /\ IsSortedBy(list, "distance")
      /\ \A k \in DOMAIN list :
           \E i \in eligible :
             /\ list[k].id = elements[i].id
             /\ list[k].lat = CoordinateOf(elements[i]).lat
             /\ list[k].lon = CoordinateOf(elements[i]).lon
             /\ list[k].distance = DistanceFrom(center, elements[i])
      /\ \A i \in eligible :
           (\A k \in DOMAIN list : list[k].id # elements[i].id)
             => \A k \in DOMAIN list : Le(list[k].distance, DistanceFrom(center, elements[i]))

\* C12: on a successful fresh query the candidate list holds only elements tagged
\* amenity=fuel that have a coordinate (their own or a center) and lie within
\* maxDistance of the query center, is sorted by ascending distance from the
\* center, and has at most 3 entries, the 3 nearest such elements.
C12_NearestFuelElements ==
  (pc = "looked" /\ requestLog[1].outcome = "ok")
    => IsNearestThree(returned[1], requestLog[1].elements, inflight[1])

\* A straight route of 150 km (13637 latitude units).
Route150 == << Pt(500000, 0), Pt(513637, 0) >>

\* n is max(1, floor(km / interval)) for a length of meters metres: the largest
\* count whose intervals fit into the length, and 1 when not even one fits.
IsFloorCount(n, meters, interval) ==
  /\ n >= 1
  /\ (n > 1) => n * interval * 1000 <= meters
  /\ (n + 1) * interval * 1000 > meters

\* C13: the number of samples the enricher requests is
\* max(1, floor(totalDistanceKm / minInterval)) for every route; a 150 km route
\* with minInterval 50 gets 3 samples with target distances 0, 75 and 150 km.
C13_SampleCount ==
  /\ pc # "idle" =>
       /\ IsFloorCount(numSamples, calculateTotalDistance(routePoints).v, minInterval)
       /\ Len(samplePoints) = numSamples
  /\ LET total == calculateTotalDistance(Route150)
         n == StationCount(total, 50)
     IN  /\ total.v \div 1000 = 150
         /\ n = 3
         /\ TargetDistance(Route150, n, 0) = Fin(0)
         /\ TargetDistance(Route150, n, 1) = Fin(total.v \div 2)
         /\ TargetDistance(Route150, n, 2) = total

\* The enricher has computed three samples for a route of 120 km or more.
C13_Witness ==
  /\ pc # "idle"
  /\ numSamples = 3
  /\ Len(samplePoints) = 3
  /\ calculateTotalDistance(routePoints).v >= 120000

MarkupChars == {"<", ">", "&"}

XmlEscapePiece(c) ==
  CASE c = "<" -> "&lt;"
    [] c = ">" -> "&gt;"
    [] c = "&" -> "&amp;"
    [] OTHER -> c

XmlEscape(text) == [i \in DOMAIN text |-> XmlEscapePiece(text[i])]

NoRawMarkup(text) == \A i \in DOMAIN text : text[i] \notin MarkupChars

\* part occurs in text as a run of consecutive pieces.
Contains(text, part) ==
  \E i \in 0..(Len(text) - Len(part)) : SubSeq(text, i + 1, i + Len(part)) = part

\* The k-th waypoint of a rendered document that starts with n track points.
WaypointOf(rendered, n, k) == rendered[n + k]

\* C14: for every station name and brand, also ones with markup characters, the
\* rendered waypoint name and description hold that text only in escaped form, so
\* that the output document stays well-formed.
C14_TextIsEscaped ==
  \A f \in DOMAIN output :
    \A k \in DOMAIN result :
      LET w == WaypointOf(output[f], Len(routePoints), k)
      IN  /\ NoRawMarkup(w.name)
          /\ NoRawMarkup(w.desc)
          /\ Contains(w.name, XmlEscape(result[k].brand))
          /\ Contains(w.desc, XmlEscape(result[k].name))
          /\ Contains(w.desc, XmlEscape(result[k].brand))

\* km is meters / 1000 rounded to the nearest whole number.
IsRoundedKm(km, meters) == 1000 * km - 500 <= meters /\ meters < 1000 * km + 500

\* C15: generateGPX emits every point of the track's first segment unchanged and
\* in order, then exactly one waypoint per station in the order of the station
\* list, the k-th one labelled with number k, the station's brand and its route
\* distance rounded to whole kilometres; with no station it emits the track only.
C15_TrackThenWaypoints ==
  \A f \in DOMAIN output :
    LET rendered == output[f]
        n == Len(routePoints)
    IN  /\ Len(rendered) = n + Len(result)
        /\ \A i \in 1..n :
             /\ rendered[i].tag = "trkpt"
             /\ parseFloat(rendered[i].lat, CoordDecimals) = routePoints[i].lat
             /\ parseFloat(rendered[i].lon, CoordDecimals) = routePoints[i].lon
             /\ Len(rendered[i].ele) = 1
             /\ parseFloat(rendered[i].ele[1], MeterDecimals) = routePoints[i].ele
        /\ \A k \in DOMAIN result :
             LET w == WaypointOf(rendered, n, k)
             IN  /\ w.tag = "wpt"
                 /\ parseFloat(w.lat, CoordDecimals) = result[k].lat
                 /\ parseFloat(w.lon, CoordDecimals) = result[k].lon
                 /\ \E km \in 0..200 :
                      /\ IsRoundedKm(km, result[k].routeDistance.v)
                      /\ w.name = << "(pump) #" >> \o NatToText(k) \o << " " >>
                                    \o result[k].brand
                                    \o << " (" >> \o NatToText(km) \o << "km)" >>

\* A written document with three track points and three waypoints, the last one
\* farther along the route than the first.
C15_Witness ==
  /\ pc = "responded"
  /\ Len(routePoints) = 3
  /\ Len(result) = 3
  /\ Len(output) = 1
  /\ Lt(result[1].routeDistance, result[3].routeDistance)

\* C16: parsing the document generateGPX renders for a parsed track with zero
\* stations yields the same point sequence: same count, same order, same
\* latitude, longitude and elevation.
C16_RoundTrip ==
  \A f \in DOMAIN output :
    (result = << >>) => RoutePointsOf(parseGPX(output[f])) = routePoints

\* A document was written without stations for a track that was read from
\* longitude-first points with a fractional latitude and an elevation.
C16_Witness ==
  /\ pc = "responded"
  /\ result = << >>
  /\ Len(output) = 1
  /\ Len(routePoints) >= 2
  /\ document[1].first = "lon"
  /\ \E i \in DOMAIN routePoints :
       routePoints[i].lat.v % 10 # 0 /\ routePoints[i].ele # Fin(0)

\* C17: when the document yields zero points the request is answered with the
\* no-route-data error and the pipeline stops: no sampling, no lookup, no output
\* file; and that error is given for no other reason.
C17_NoRouteStops ==
  /\ (pc # "received" /\ routePoints = << >>) =>
       /\ pc = "rejected"
       /\ response = "noRouteData"
       /\ numSamples = 0
       /\ samplePoints = << >>
       /\ requestLog = << >>
       /\ returned = << >>
       /\ inflight = << >>
       /\ output = << >>
  /\ (response = "noRouteData") => routePoints = << >>

\* A document that is not empty was rejected.
C17_Witness ==
  /\ pc = "rejected"
  /\ response = "noRouteData"
  /\ document # << >>

\* The encoding of a point element, in the parser's priority order.
EncodingOf(e) ==
  CASE e.tag = "trkpt" /\ e.form = "container" /\ e.first = "lat" -> 1
    [] e.tag = "trkpt" /\ e.form = "container" /\ e.first = "lon" -> 2
    [] e.tag = "trkpt" /\ e.form = "selfClosing" /\ e.first = "lat" -> 3
    [] e.tag = "trkpt" /\ e.form = "selfClosing" /\ e.first = "lon" -> 4
    [] OTHER -> 5

\* The positions of the elements of content that have encoding k.
PositionsOf(content, k) ==
  SelectSeq([i \in DOMAIN content |-> content[i]], LAMBDA e : EncodingOf(e) = k)

SamePositions(points, elements) ==
  /\ Len(points) = Len(elements)
  /\ \A i \in DOMAIN points :
       /\ points[i].lat = parseFloat(elements[i].lat, CoordDecimals)
       /\ points[i].lon = parseFloat(elements[i].lon, CoordDecimals)

\* C18: the parse result holds the points of one encoding only, the first in
\* priority order (track points lat-first, track points lon-first, self-closing
\* lat-first, self-closing lon-first, route points) the document has a point of;
\* a document with route points only yields those route points.
C18_FirstEncodingOnly ==
  (pc # "received" /\ document # << >>) =>
    LET first == CHOOSE k \in 1..5 :
                   /\ PositionsOf(document, k) # << >>
                   /\ \A j \in 1..(k - 1) : PositionsOf(document, j) = << >>
    IN  SamePositions(routePoints, PositionsOf(document, first))

\* C19: in the output of any run the route start and the first waypoint, and any
\* two consecutive waypoints, are at most maxInterval (80 km) and at least
\* minInterval apart in distance along the route.
C19_SpacingWithinBounds ==
  pc = "done" =>
    \A k \in DOMAIN result :
      LET before == IF k = 1 THEN 0 ELSE result[k - 1].routeDistance.v
          gap == result[k].routeDistance.v - before
      IN  minInterval * 1000 <= gap /\ gap <= maxInterval * 1000

\* The requests of the log that have not been answered.
Pending == { r \in DOMAIN requestLog : requestLog[r].outcome = "pending" }

\* C20: lookups are made one sample at a time in sample order: a request goes
\* out only for the sample the loop is at, when every earlier sample's lookup has
\* returned and no request is outstanding; at most one request is outstanding at
\* any time; and an entry enters the cache only for the sample the loop is at.
C20_OneLookupAtATime ==
  [][ /\ Len(inflight) <= 1
      /\ Len(inflight') <= 1
      /\ Cardinality(Pending) = Len(inflight)
      /\ Len(returned) = idx
      /\ (Len(requestLog') > Len(requestLog)) =>
           /\ inflight = << >>
           /\ Len(requestLog') = Len(requestLog) + 1
           /\ requestLog'[Len(requestLog')].key = SampleKey(idx + 1)
           /\ inflight'[1].lat = samplePoints[idx + 1].lat
           /\ inflight'[1].lon = samplePoints[idx + 1].lon
           /\ idx' = idx
      /\ \A k \in (DOMAIN cache') \ (DOMAIN cache) :
           /\ k = SampleKey(idx + 1)
           /\ idx' = idx + 1
           /\ \A j \in 1..idx :
                SampleKey(j) \in DOMAIN cache \/ returned[j] = << >> ]_vars

\* A finished run that made two requests for different keys, one after the
\* other, and cached both answers.
C20_Witness ==
  /\ pc = "done"
  /\ Len(requestLog) >= 2
  /\ requestLog[1].key # requestLog[2].key
  /\ requestLog[1].key = SampleKey(1)
  /\ {requestLog[1].key, requestLog[2].key} \subseteq DOMAIN cache

\* C22: every candidate list findNearbyFuelStations returns for a sample, fresh
\* or from the cache, holds only stations within maxDistance of that sample, and
\* the distance field of each entry is the station's distance from that sample.
C22_ListMatchesCenter ==
  \A i \in DOMAIN returned :
    \A c \in DOMAIN returned[i] :
      LET station == returned[i][c]
          fromCenter == Haversine(samplePoints[i].lat, samplePoints[i].lon,
                                  station.lat, station.lon)
      IN  /\ Le(fromCenter, Fin(maxDistance))
          /\ station.distance = fromCenter

\* C23: for samples i < j of a run the route distance calculateDistanceAlongRoute
\* gives for sample i is at most the one it gives for sample j, so that the final
\* sort leaves the stations in sample order.
C23_AttributionKeepsOrder ==
  pc # "idle" =>
    \A i, j \in DOMAIN samplePoints :
      (i < j) => Le(calculateDistanceAlongRoute(routePoints, samplePoints[i]),
                    calculateDistanceAlongRoute(routePoints, samplePoints[j]))

\* The cache reads and the cache writes the server has made.
CacheReads == { e \in cacheLog : e.op = "get" }

CacheWrites == { e \in cacheLog : e.op = "set" }

\* C21: each request owns its cache: the entry a request reads from a cache was
\* written by that same request, whatever the other requests have been doing, and
\* every cache only ever holds what its own request wrote.
C21_CachePerRequest ==
  /\ pc = "server" =>
       \A read \in CacheReads, write \in CacheWrites :
         (read.finder = write.finder /\ read.key = write.key) => read.request = write.request
  /\ pc = "server" =>
       \A read \in CacheReads : \E write \in CacheWrites :
         write.finder = read.finder /\ write.key = read.key /\ write.request = read.request
  /\ pc = "server" =>
       \A write \in CacheWrites : \A other \in CacheWrites :
         write.finder = other.finder => write.request = other.request

\* Two requests have looked up the same key, each sent its own request for it and
\* set its own cache, and one of them then read its own entry.
C21_Witness ==
  /\ pc = "server"
  /\ \E read \in CacheReads, write \in CacheWrites :
       /\ read.request # write.request
       /\ read.key = write.key
       /\ handlers[read.request].sent = 1
       /\ handlers[write.request].sent = 1

\* The requests answered with 200.
Successful == { r \in DOMAIN handlers : handlers[r].response = "success" }

\* C24: two successful requests never get the same outputFilename, so the file
\* behind a returned downloadUrl holds the document generated for that request, the
\* download sends that document, and the file's unlink is scheduled for no other
\* request.
C24_FilenamesDistinct ==
  /\ \A r, q \in Successful :
       r # q => handlers[r].outputFilename # handlers[q].outputFilename
  /\ \A r \in Successful :
       handlers[r].outputFilename \in DOMAIN tmpDir =>
         /\ tmpDir[handlers[r].outputFilename].owner = r
         /\ tmpDir[handlers[r].outputFilename].unlinkFor \subseteq {r}
  /\ \A r \in Successful : handlers[r].downloaded # "other"
====
